---- MODULE Spec2Model ----
(***************************************************************************)
(* State-machine model of the D&D Discord bot (src/main.py): the two       *)
(* module-level dictionaries `characters` and `combat_state`, their two    *)
(* JSON backing files, load_data / save_characters / save_combat, and the  *)
(* branches of the on_message dispatcher.                                  *)
(*                                                                         *)
(* Text is modelled as a sequence of one-character strings, so that        *)
(* str.startswith, slicing and str.strip are computed, not assumed.        *)
(* A Python dict is modelled as the sequence of its [key, val] entries in  *)
(* insertion order.                                                        *)
(*                                                                         *)
(* Specifications:                                                         *)
(*   Spec       the seven state commands and on_ready, saves succeeding;   *)
(*   SpecAll    all nine commands, with the completion call of !dnd        *)
(*              holding the event loop's thread until it returns;          *)
(*   SpecFaults one user's commands, reloads and restarts while opening    *)
(*              or writing the backing files fails;                        *)
(*   SpecRoll   parse_dice_expression and the !roll branch;                *)
(*   SpecAsync  handlers overlapping at their awaits.                      *)
(***************************************************************************)
EXTENDS Integers, Sequences, FiniteSets, Bags, TLC

\* ------------------------------------------------------------------ bounds

\* Inventory length after which !additem messages are no longer drawn.
MaxItems == 1

\* Value at which the observer's count of completed turns saturates.
MaxTurns == 3

\* -------------------------------------------------------------------- text

\* Characters str.strip() removes (the ones that occur in the inputs).
Whitespace == {" ", "\t", "\n"}

RECURSIVE LStrip(_)
LStrip(s) == IF s # <<>> /\ Head(s) \in Whitespace THEN LStrip(Tail(s)) ELSE s

RECURSIVE RStrip(_)
RStrip(s) ==
    IF s # <<>> /\ s[Len(s)] \in Whitespace
    THEN RStrip(SubSeq(s, 1, Len(s) - 1))
    ELSE s

\* str.strip()
Strip(s) == RStrip(LStrip(s))

\* str.startswith(p)
StartsWith(s, p) == Len(s) >= Len(p) /\ SubSeq(s, 1, Len(p)) = p

\* content[len(p):]
SliceFrom(s, p) == SubSeq(s, Len(p) + 1, Len(s))

DigitChars == <<"0", "1", "2", "3", "4", "5", "6", "7", "8", "9">>

\* str(n) for a non-negative integer
RECURSIVE Str(_)
Str(n) ==
    IF n < 10
    THEN <<DigitChars[n + 1]>>
    ELSE Str(n \div 10) \o <<DigitChars[(n % 10) + 1]>>

\* sep.join(parts)
RECURSIVE Join(_, _)
Join(sep, parts) ==
    IF parts = <<>> THEN <<>>
    ELSE IF Len(parts) = 1 THEN parts[1]
    ELSE parts[1] \o sep \o Join(sep, Tail(parts))

\* -------------------------------------------------------------------- dict

\* {}
EmptyDict == <<>>

DictKeys(d) == {d[i].key : i \in DOMAIN d}

DictHas(d, k) == k \in DictKeys(d)

DictIndex(d, k) == CHOOSE i \in DOMAIN d : d[i].key = k

\* d[k]
DictAt(d, k) == d[DictIndex(d, k)].val

\* d.get(k, default)
DictGet(d, k, default) == IF DictHas(d, k) THEN DictAt(d, k) ELSE default

\* Mutant: every assignment adds an entry, also for a key already present.
DictSet_Append(d, k, v) == Append(d, [key |-> k, val |-> v])

\* d[k] = v : an existing key keeps its position, a new key goes last
DictSet(d, k, v) ==
    IF DictHas(d, k)
    THEN [d EXCEPT ![DictIndex(d, k)] = [key |-> k, val |-> v]]
    ELSE Append(d, [key |-> k, val |-> v])

\* list(d.values())
DictValues(d) == [i \in DOMAIN d |-> d[i].val]

\* -------------------------------------------------------------------- JSON

\* A JSON text, as the tree of values json.dump writes and json.load reads.
JsonString(s) == [t |-> "string", v |-> s]

JsonNumber(n) == [t |-> "number", v |-> n]

JsonBool(b) == [t |-> IF b THEN "true" ELSE "false", v |-> <<>>]

JsonStringArray(xs) == [t |-> "array", v |-> [i \in DOMAIN xs |-> JsonString(xs[i])]]

\* One member value of a character record: "items" is a list of str, the
\* others ("name", "class") are str.
JsonCharacterField(k, v) == IF k = "items" THEN JsonStringArray(v) ELSE JsonString(v)

JsonCharacter(c) ==
    [t |-> "object",
     v |-> [i \in DOMAIN c |->
              [key |-> c[i].key, val |-> JsonCharacterField(c[i].key, c[i].val)]]]

\* json.dump(characters, f, ...)
DumpCharacters(d) ==
    [t |-> "object",
     v |-> [i \in DOMAIN d |-> [key |-> d[i].key, val |-> JsonCharacter(d[i].val)]]]

JsonCombatField(k, v) ==
    CASE k = "ongoing" -> JsonBool(v)
      [] k = "turn_order" -> JsonStringArray(v)
      [] OTHER -> JsonNumber(v)

\* json.dump(combat_state, f, ...)
DumpCombat(d) ==
    [t |-> "object",
     v |-> [i \in DOMAIN d |->
              [key |-> d[i].key, val |-> JsonCombatField(d[i].key, d[i].val)]]]

\* json.load(f)
RECURSIVE JsonLoad(_)
JsonLoad(j) ==
    CASE j.t = "object" ->
           [i \in DOMAIN j.v |-> [key |-> j.v[i].key, val |-> JsonLoad(j.v[i].val)]]
      [] j.t = "array" -> [i \in DOMAIN j.v |-> JsonLoad(j.v[i])]
      [] j.t = "true" -> TRUE
      [] j.t = "false" -> FALSE
      [] OTHER -> j.v

\* ------------------------------------------------------------------- files

\* A backing file: absent, holding a JSON text, or holding bytes that
\* json.load rejects.
NoFile == [kind |-> "absent", text |-> JsonBool(FALSE)]

JsonFile(j) == [kind |-> "json", text |-> j]

\* What open(file, "w") followed by a json.dump that raises part-way leaves
\* behind: a truncated file that json.load rejects.
PartialFile == [kind |-> "partial", text |-> JsonBool(FALSE)]

\* Mutant: a file that cannot be parsed leaves the dictionary as it was.
LoadDocument_KeepsOnError(file, current) ==
    IF file.kind = "json" THEN JsonLoad(file.text) ELSE current

\* One half of load_data: the dictionary bound after reading `file`, given
\* the dictionary `current` bound before.
LoadDocument(file, current) ==
    IF file.kind = "absent" THEN current
    ELSE IF file.kind = "json" THEN JsonLoad(file.text)
    ELSE EmptyDict

\* ------------------------------------------------------------------- state

VARIABLES
    characters,     \* dict: str(user id) -> {"name", "class", "items"}
    combat_state,   \* dict: {} or {"ongoing", "turn_order", "current_index"}
    character_file, \* character_data.json
    combat_file,    \* combat_data.json
    last,           \* the event handled last and the replies it sent
    disk,           \* environment: what open/json.dump for writing do now
    tasks,          \* bag of the handlers suspended at their await
    call,           \* the completion call the thread is inside, if any
    creators,       \* observer: authors whose !createchar was confirmed
    turns           \* observer: !endturn accepted since the last accepted
                    \* !startcombat, saturating at MaxTurns

vars == <<characters, combat_state, character_file, combat_file, last, creators, turns,
          disk, tasks, call>>

\* ------------------------------------------------------------------ inputs

\* client.user, the bot's own account
BotId == 0

\* message.author.id of the people who write messages
Users == {1, 2}

Authors == {BotId} \cup Users

P_dnd == <<"!", "d", "n", "d">>

P_roll == <<"!", "r", "o", "l", "l">>

P_createchar == <<"!", "c", "r", "e", "a", "t", "e", "c", "h", "a", "r">>

P_sheet == <<"!", "s", "h", "e", "e", "t">>

P_setclass == <<"!", "s", "e", "t", "c", "l", "a", "s", "s">>

P_additem == <<"!", "a", "d", "d", "i", "t", "e", "m">>

P_startcombat == <<"!", "s", "t", "a", "r", "t", "c", "o", "m", "b", "a", "t">>

P_endturn == <<"!", "e", "n", "d", "t", "u", "r", "n">>

P_endcombat == <<"!", "e", "n", "d", "c", "o", "m", "b", "a", "t">>

\* The prefixes on_message tests, in the order it tests them.
Prefixes ==
    <<[tag |-> "!dnd", text |-> P_dnd],
      [tag |-> "!roll", text |-> P_roll],
      [tag |-> "!createchar", text |-> P_createchar],
      [tag |-> "!sheet", text |-> P_sheet],
      [tag |-> "!setclass", text |-> P_setclass],
      [tag |-> "!additem", text |-> P_additem],
      [tag |-> "!startcombat", text |-> P_startcombat],
      [tag |-> "!endturn", text |-> P_endturn],
      [tag |-> "!endcombat", text |-> P_endcombat]>>

\* The branch of on_message that handles the stripped text `content`: the
\* first prefix, in source order, the text starts with.
Dispatch(content) ==
    IF \E i \in DOMAIN Prefixes : StartsWith(content, Prefixes[i].text)
    THEN LET first == CHOOSE i \in DOMAIN Prefixes :
                        /\ StartsWith(content, Prefixes[i].text)
                        /\ \A j \in 1..(i - 1) : ~StartsWith(content, Prefixes[j].text)
         IN  Prefixes[first].tag
    ELSE "none"

\* Argument texts that follow a prefix in the messages drawn.
NameArgs == {<<>>, <<" ">>, <<" ", "A">>, <<" ", "B", " ">>}

ClassArgs == {<<>>, <<" ", "W">>}

ItemArgs == {<<" ", " ">>, <<" ", "S">>}

BareArgs == {<<>>, <<" ", "x">>}

\* message.content of the messages drawn
Contents ==
    {P_createchar \o a : a \in NameArgs}
    \cup {P_setclass \o a : a \in ClassArgs}
    \cup {P_additem \o a : a \in ItemArgs}
    \cup {P_startcombat \o a : a \in BareArgs}
    \cup {<<" ">> \o P_endturn, P_endturn}
    \cup {P_endcombat}
    \cup {P_sheet}
    \cup {<<>>, <<"h", "i">>, <<"!", "e", "n", "d">>}

\* The branches that slice an argument off the text after their prefix.
ArgCommands == {"!dnd", "!roll", "!createchar", "!setclass", "!additem"}

PrefixOf(tag) == Prefixes[CHOOSE i \in DOMAIN Prefixes : Prefixes[i].tag = tag].text

\* What on_message makes of message.content before it touches any state:
\* content = message.content.strip(), the branch whose prefix matches, and
\* for the branches that take one the argument content[len(prefix):].strip().
Parse(raw) ==
    LET content == Strip(raw)
        tag == Dispatch(content)
    IN  [cmd |-> tag,
         arg |-> IF tag \in ArgCommands THEN Strip(SliceFrom(content, PrefixOf(tag))) ELSE <<>>]

\* The messages drawn, as parsed.
Messages == {Parse(raw) : raw \in Contents}

\* ------------------------------------------------------------- persistence

\* State bound by the module body: both dictionaries empty, and (the run
\* starts in a fresh working directory) neither backing file present.
Init ==
    /\ characters = EmptyDict
    /\ combat_state = EmptyDict
    /\ character_file = NoFile
    /\ combat_file = NoFile
    /\ last = [author |-> BotId, cmd |-> "start", arg |-> <<>>, sent |-> <<>>]
    /\ creators = {}
    /\ turns = 0
    /\ disk = "ok"
    /\ tasks = EmptyBag
    /\ call = <<>>

\* The body of both save functions: open(file, "w") and json.dump inside a
\* try whose except prints and returns. When open raises the file is left
\* as it was; when json.dump raises after open truncated it, a partial file
\* is left.
WriteFile(file, text) ==
    CASE disk = "ok" -> JsonFile(text)
      [] disk = "open_fails" -> file
      [] OTHER -> PartialFile

\* The file save_characters leaves behind.
SaveCharacters(d) == WriteFile(character_file, DumpCharacters(d))

\* Mutant: save_combat returns without writing.
SaveCombat_Skipped(d) == combat_file

\* The file save_combat leaves behind.
SaveCombat(d) == WriteFile(combat_file, DumpCombat(d))

\* A step of the atomic handlers below leaves the environment and the
\* event loop's bookkeeping alone.
Quiet == UNCHANGED <<disk, tasks, call>>

\* The record of a handled event: who sent it, the branch that took it,
\* the argument the branch extracted and the texts passed to channel.send.
Event(author, cmd, arg, sent) == [author |-> author, cmd |-> cmd, arg |-> arg, sent |-> sent]

\* A formatted reply: the f-string's literal text with {} for each
\* interpolated value, and the values.
Reply(fmt, args) == [fmt |-> fmt, args |-> args]

\* on_ready: load_data() rebinds each dictionary whose file exists.
OnReady ==
    /\ characters' = LoadDocument(character_file, characters)
    /\ combat_state' = LoadDocument(combat_file, combat_state)
    /\ last' = Event(BotId, "on_ready", <<>>, <<>>)
    /\ UNCHANGED <<character_file, combat_file, creators, turns>>

\* ---------------------------------------------------------------- handlers
\* Every branch of on_message reads and writes the dictionaries and saves
\* before its first await (the channel.send of its reply) and returns right
\* after it, so a handler is one atomic step of the shared state.

\* `not x` for a str, list or dict x, and for the None that dict.get returns
\* for a missing key (DictGet is then given the empty value as its default).
Not(x) == x = <<>>

\* Mutant: the ongoing flag is never seen as set.
IsOngoing_Never(d) == FALSE

\* combat_state.get("ongoing"), as a truth value
IsOngoing(d) == DictGet(d, "ongoing", FALSE)

\* Mutant: every author is filed under the same key.
UserId_Shared(author) == Str(1)

\* str(message.author.id)
UserId(author) == Str(author)

\* `if message.author == client.user: return`
OnOwnMessage(author, msg) ==
    /\ author = BotId
    /\ last' = Event(author, "none", <<>>, <<>>)
    /\ UNCHANGED <<characters, combat_state, character_file, combat_file, creators, turns>>

\* A message none of the prefixes matches falls off the end of on_message.
OnOtherMessage(author, msg) ==
    /\ author # BotId
    /\ msg.cmd = "none"
    /\ last' = Event(author, "none", <<>>, <<>>)
    /\ UNCHANGED <<characters, combat_state, character_file, combat_file, creators, turns>>

\* {"name": name, "class": "", "items": []}
NewCharacter(name) ==
    DictSet(DictSet(DictSet(EmptyDict, "name", name), "class", <<>>), "items", <<>>)

\* Mutant: !createchar without the `if not name` check.
CreateChar_NoNameCheck(author, msg) ==
    /\ author # BotId
    /\ msg.cmd = "!createchar"
    /\ characters' = DictSet(characters, UserId(author), NewCharacter(msg.arg))
    /\ character_file' = SaveCharacters(characters')
    /\ creators' = creators \cup {author}
    /\ last' = Event(author, "!createchar", msg.arg,
                     <<Reply("Character '{}' created!", <<msg.arg>>)>>)
    /\ UNCHANGED <<combat_state, combat_file, turns>>

\* Mutant: an exception of save_characters leaves the !createchar branch
\* before its reply is sent.
CreateChar_SaveRaises(author, msg) ==
    /\ author # BotId
    /\ msg.cmd = "!createchar"
    /\ LET name == msg.arg
           user_id == UserId(author)
       IN  IF Not(name)
           THEN /\ last' = Event(author, "!createchar", name,
                                 <<Reply("Please provide a name for your character.", <<>>)>>)
                /\ UNCHANGED <<characters, character_file, creators>>
           ELSE /\ characters' = DictSet(characters, user_id, NewCharacter(name))
                /\ character_file' = SaveCharacters(characters')
                /\ creators' = creators \cup {author}
                /\ last' = Event(author, "!createchar", name,
                                 IF disk = "ok"
                                 THEN <<Reply("Character '{}' created!", <<name>>)>>
                                 ELSE <<>>)
    /\ UNCHANGED <<combat_state, combat_file, turns>>

\* !createchar <name>
CreateChar(author, msg) ==
    /\ author # BotId
    /\ msg.cmd = "!createchar"
    /\ LET name == msg.arg
           user_id == UserId(author)
       IN  IF Not(name)
           THEN /\ last' = Event(author, "!createchar", name,
                                 <<Reply("Please provide a name for your character.", <<>>)>>)
                /\ UNCHANGED <<characters, character_file, creators>>
           ELSE /\ characters' = DictSet(characters, user_id, NewCharacter(name))
                /\ character_file' = SaveCharacters(characters')
                /\ creators' = creators \cup {author}
                /\ last' = Event(author, "!createchar", name,
                                 <<Reply("Character '{}' created!", <<name>>)>>)
    /\ UNCHANGED <<combat_state, combat_file, turns>>

\* !sheet
Sheet(author, msg) ==
    /\ author # BotId
    /\ msg.cmd = "!sheet"
    /\ LET char == DictGet(characters, UserId(author), EmptyDict)
       IN  IF Not(char)
           THEN last' = Event(author, "!sheet", <<>>,
                    <<Reply("You don't have a character yet. Use !createchar <name> to create one.", <<>>)>>)
           ELSE LET name == DictGet(char, "name", <<"U", "n", "n", "a", "m", "e", "d">>)
                    given == DictGet(char, "class", <<>>)
                    char_class == IF given = <<>> THEN <<"U", "n", "a", "s", "s", "i", "g", "n", "e", "d">> ELSE given
                    items == DictGet(char, "items", <<>>)
                    item_list == IF items = <<>> THEN <<"N", "o", " ", "i", "t", "e", "m", "s">>
                                 ELSE Join(<<",", " ">>, items)
                IN  last' = Event(author, "!sheet", <<>>,
                         <<Reply("**{}** (Class: {})\nInventory: {}", <<name, char_class, item_list>>)>>)
    /\ UNCHANGED <<characters, combat_state, character_file, combat_file, creators, turns>>

\* Mutant: !setclass tests the argument before it looks the record up.
SetClass_ArgumentFirst(author, msg) ==
    /\ author # BotId
    /\ msg.cmd = "!setclass"
    /\ LET class_name == msg.arg
           user_id == UserId(author)
           char == DictGet(characters, user_id, EmptyDict)
       IN  IF Not(class_name)
           THEN /\ last' = Event(author, "!setclass", class_name,
                                 <<Reply("Please specify a class.", <<>>)>>)
                /\ UNCHANGED <<characters, character_file>>
           ELSE IF Not(char)
           THEN /\ last' = Event(author, "!setclass", class_name,
                                 <<Reply("Create a character first using !createchar.", <<>>)>>)
                /\ UNCHANGED <<characters, character_file>>
           ELSE /\ characters' = DictSet(characters, user_id, DictSet(char, "class", class_name))
                /\ character_file' = SaveCharacters(characters')
                /\ last' = Event(author, "!setclass", class_name,
                                 <<Reply("Class set to {} for {}.", <<class_name, DictAt(char, "name")>>)>>)
    /\ UNCHANGED <<combat_state, combat_file, creators, turns>>

\* Mutant: !setclass stores a fresh record with the class, dropping the items.
SetClass_FreshRecord(author, msg) ==
    /\ author # BotId
    /\ msg.cmd = "!setclass"
    /\ LET class_name == msg.arg
           user_id == UserId(author)
           char == DictGet(characters, user_id, EmptyDict)
       IN  IF Not(char)
           THEN /\ last' = Event(author, "!setclass", class_name,
                                 <<Reply("Create a character first using !createchar.", <<>>)>>)
                /\ UNCHANGED <<characters, character_file>>
           ELSE IF Not(class_name)
           THEN /\ last' = Event(author, "!setclass", class_name,
                                 <<Reply("Please specify a class.", <<>>)>>)
                /\ UNCHANGED <<characters, character_file>>
           ELSE /\ characters' = DictSet(characters, user_id,
                                         DictSet(NewCharacter(DictAt(char, "name")),
                                                 "class", class_name))
                /\ character_file' = SaveCharacters(characters')
                /\ last' = Event(author, "!setclass", class_name,
                                 <<Reply("Class set to {} for {}.", <<class_name, DictAt(char, "name")>>)>>)
    /\ UNCHANGED <<combat_state, combat_file, creators, turns>>

\* !setclass <class>
SetClass(author, msg) ==
    /\ author # BotId
    /\ msg.cmd = "!setclass"
    /\ LET class_name == msg.arg
           user_id == UserId(author)
           char == DictGet(characters, user_id, EmptyDict)
       IN  IF Not(char)
           THEN /\ last' = Event(author, "!setclass", class_name,
                                 <<Reply("Create a character first using !createchar.", <<>>)>>)
                /\ UNCHANGED <<characters, character_file>>
           ELSE IF Not(class_name)
           THEN /\ last' = Event(author, "!setclass", class_name,
                                 <<Reply("Please specify a class.", <<>>)>>)
                /\ UNCHANGED <<characters, character_file>>
           ELSE /\ characters' = DictSet(characters, user_id, DictSet(char, "class", class_name))
                /\ character_file' = SaveCharacters(characters')
                /\ last' = Event(author, "!setclass", class_name,
                                 <<Reply("Class set to {} for {}.", <<class_name, DictAt(char, "name")>>)>>)
    /\ UNCHANGED <<combat_state, combat_file, creators, turns>>

\* !additem <item>
AddItem(author, msg) ==
    /\ author # BotId
    /\ msg.cmd = "!additem"
    /\ LET item_name == msg.arg
           user_id == UserId(author)
           char == DictGet(characters, user_id, EmptyDict)
       IN  /\ Len(DictGet(char, "items", <<>>)) < MaxItems
           /\ IF Not(char)
              THEN /\ last' = Event(author, "!additem", item_name,
                                    <<Reply("Create a character first using !createchar.", <<>>)>>)
                   /\ UNCHANGED <<characters, character_file>>
              ELSE IF Not(item_name)
              THEN /\ last' = Event(author, "!additem", item_name,
                                    <<Reply("Please specify an item to add.", <<>>)>>)
                   /\ UNCHANGED <<characters, character_file>>
              ELSE /\ characters' =
                        DictSet(characters, user_id,
                                DictSet(char, "items",
                                        Append(DictGet(char, "items", <<>>), item_name)))
                   /\ character_file' = SaveCharacters(characters')
                   /\ last' = Event(author, "!additem", item_name,
                                    <<Reply("Added {} to {}'s inventory.", <<item_name, DictAt(char, "name")>>)>>)
    /\ UNCHANGED <<combat_state, combat_file, creators, turns>>

\* [c["name"] for c in characters.values()]
CharacterNames(d) ==
    LET values == DictValues(d)
    IN  [i \in DOMAIN values |-> DictAt(values[i], "name")]

\* Mutant: the list is left in registry order.
Shuffles_Unshuffled(s) == {s}

\* The lists random.shuffle can leave in place of `s`: every rearrangement.
Shuffles(s) == {[i \in DOMAIN s |-> s[f[i]]] : f \in Permutations(DOMAIN s)}

\* The three assignments of !startcombat to combat_state.
BeginCombat(d, turn_order) ==
    DictSet(DictSet(DictSet(d, "ongoing", TRUE), "turn_order", turn_order), "current_index", 0)

\* Mutant: !startcombat without the `if not turn_order` check.
StartCombat_NoEmptyCheck(author, msg) ==
    /\ author # BotId
    /\ msg.cmd = "!startcombat"
    /\ IF IsOngoing(combat_state)
       THEN /\ last' = Event(author, "!startcombat", <<>>,
                             <<Reply("Combat is already in progress.", <<>>)>>)
            /\ UNCHANGED <<combat_state, combat_file, turns>>
       ELSE \E turn_order \in Shuffles(CharacterNames(characters)) :
            /\ combat_state' = BeginCombat(combat_state, turn_order)
            /\ combat_file' = SaveCombat(combat_state')
            /\ turns' = 0
            /\ last' = Event(author, "!startcombat", <<>>,
                             IF 1 \in DOMAIN turn_order
                             THEN <<Reply("Combat begins! Turn order: {}\nIt is now {}'s turn.",
                                          <<Join(<<",", " ">>, turn_order), turn_order[1]>>)>>
                             ELSE <<>>)
    /\ UNCHANGED <<characters, character_file, creators>>

\* !startcombat
StartCombat(author, msg) ==
    /\ author # BotId
    /\ msg.cmd = "!startcombat"
    /\ IF IsOngoing(combat_state)
       THEN /\ last' = Event(author, "!startcombat", <<>>,
                             <<Reply("Combat is already in progress.", <<>>)>>)
            /\ UNCHANGED <<combat_state, combat_file, turns>>
       ELSE IF Not(CharacterNames(characters))
       THEN /\ last' = Event(author, "!startcombat", <<>>,
                             <<Reply("No characters exist to start combat.", <<>>)>>)
            /\ UNCHANGED <<combat_state, combat_file, turns>>
       ELSE \E turn_order \in Shuffles(CharacterNames(characters)) :
            /\ combat_state' = BeginCombat(combat_state, turn_order)
            /\ combat_file' = SaveCombat(combat_state')
            /\ turns' = 0
            \* turn_order[0] raises IndexError on an empty list: no send
            /\ last' = Event(author, "!startcombat", <<>>,
                             IF 1 \in DOMAIN turn_order
                             THEN <<Reply("Combat begins! Turn order: {}\nIt is now {}'s turn.",
                                          <<Join(<<",", " ">>, turn_order), turn_order[1]>>)>>
                             ELSE <<>>)
    /\ UNCHANGED <<characters, character_file, creators>>

\* Mutant: the index is advanced without the wrap-around.
NextIndex_NoWrap(idx, turn_order) == idx + 1

\* Mutant: the increment is left out.
NextIndex_Stay(idx, turn_order) ==
    IF turn_order # <<>> THEN idx % Len(turn_order) ELSE 0

\* idx = (idx + 1) % len(turn_order) if turn_order else 0
NextIndex(idx, turn_order) ==
    IF turn_order # <<>> THEN (idx + 1) % Len(turn_order) ELSE 0

\* Mutant: the turn is advanced by rotating the list under a fixed index.
AdvanceTurn_Rotate(d) ==
    LET turn_order == DictGet(d, "turn_order", <<>>)
    IN  DictSet(DictSet(d, "turn_order", Tail(turn_order) \o <<Head(turn_order)>>),
                "current_index",
                NextIndex(DictGet(d, "current_index", 0), turn_order))

\* The update !endturn makes to combat_state: only "current_index" is
\* assigned.
AdvanceTurn(d) ==
    DictSet(d, "current_index",
            NextIndex(DictGet(d, "current_index", 0), DictGet(d, "turn_order", <<>>)))

\* !endturn
EndTurn(author, msg) ==
    /\ author # BotId
    /\ msg.cmd = "!endturn"
    /\ IF ~IsOngoing(combat_state)
       THEN /\ last' = Event(author, "!endturn", <<>>,
                             <<Reply("No combat is currently in progress.", <<>>)>>)
            /\ UNCHANGED <<combat_state, combat_file, turns>>
       ELSE LET turn_order == DictGet(combat_state, "turn_order", <<>>)
                idx == NextIndex(DictGet(combat_state, "current_index", 0), turn_order)
            IN  /\ combat_state' = AdvanceTurn(combat_state)
                /\ combat_file' = SaveCombat(combat_state')
                /\ turns' = IF turns < MaxTurns THEN turns + 1 ELSE MaxTurns
                \* turn_order[idx] raises IndexError on an empty list: no send
                /\ last' = Event(author, "!endturn", <<>>,
                                 IF idx + 1 \in DOMAIN turn_order
                                 THEN <<Reply("It is now {}'s turn.", <<turn_order[idx + 1]>>)>>
                                 ELSE <<>>)
    /\ UNCHANGED <<characters, character_file, creators>>

\* Mutant: only the flag is dropped, the order and the index stay behind.
ClearCombat_FlagOnly(d) == DictSet(d, "ongoing", FALSE)

\* combat_state.clear()
ClearCombat(d) == EmptyDict

\* !endcombat
EndCombat(author, msg) ==
    /\ author # BotId
    /\ msg.cmd = "!endcombat"
    /\ IF ~IsOngoing(combat_state)
       THEN /\ last' = Event(author, "!endcombat", <<>>,
                             <<Reply("No combat is currently in progress.", <<>>)>>)
            /\ UNCHANGED <<combat_state, combat_file, turns>>
       ELSE /\ combat_state' = ClearCombat(combat_state)
            /\ combat_file' = SaveCombat(combat_state')
            /\ turns' = 0
            /\ last' = Event(author, "!endcombat", <<>>,
                             <<Reply("Combat has ended.", <<>>)>>)
    /\ UNCHANGED <<characters, character_file, creators>>

\* -------------------------------------------------------------------- dice

\* Largest number of dice, and of sides, in the expressions drawn.
MaxDice == 3

MaxSides == 3

\* str.lower(), on the letters that occur in the inputs
Lower(s) == [i \in DOMAIN s |-> IF s[i] = "D" THEN "d" ELSE IF s[i] = "X" THEN "x" ELSE s[i]]

\* s.split(c) for a one-character separator c
RECURSIVE Split(_, _)
Split(s, c) ==
    IF \E i \in DOMAIN s : s[i] = c
    THEN LET i == CHOOSE k \in DOMAIN s : s[k] = c /\ \A j \in 1..(k - 1) : s[j] # c
         IN  <<SubSeq(s, 1, i - 1)>> \o Split(SubSeq(s, i + 1, Len(s)), c)
    ELSE <<s>>

IsDigits(s) == s # <<>> /\ \A i \in DOMAIN s : \E k \in DOMAIN DigitChars : DigitChars[k] = s[i]

RECURSIVE DigitsValue(_)
DigitsValue(s) ==
    IF s = <<>> THEN 0
    ELSE 10 * DigitsValue(SubSeq(s, 1, Len(s) - 1))
         + (CHOOSE k \in DOMAIN DigitChars : DigitChars[k] = s[Len(s)]) - 1

\* int(text): surrounding whitespace and one sign are accepted around the
\* digits; anything else raises ValueError with the message given.
ParseInt(text) ==
    LET t == Strip(text)
        signed == t # <<>> /\ t[1] \in {"+", "-"}
        body == IF signed THEN Tail(t) ELSE t
    IN  IF IsDigits(body)
        THEN [error |-> <<>>,
              value |-> IF signed /\ t[1] = "-" THEN 0 - DigitsValue(body) ELSE DigitsValue(body)]
        ELSE [error |-> <<Reply("invalid literal for int() with base 10: '{}'", <<text>>)>>,
              value |-> 0]

\* A ValueError raised by parse_dice_expression, with its message.
DiceError(message) == [error |-> <<message>>, n |-> 0, m |-> 0]

\* parse_dice_expression up to its return statement: the numbers of dice
\* and of sides, or the ValueError every exception is turned into.
ParseDice(expr) ==
    LET parts == Split(Lower(expr), "d")
    IN  IF Len(parts) # 2
        THEN DiceError(Reply("Dice expression must be in NdM format.", <<>>))
        ELSE LET n == ParseInt(parts[1])
                 m == ParseInt(parts[2])
             IN  IF n.error # <<>> THEN DiceError(n.error[1])
                 ELSE IF m.error # <<>> THEN DiceError(m.error[1])
                 ELSE IF n.value <= 0 \/ m.value <= 0
                 THEN DiceError(Reply("Number of dice and sides must be positive.", <<>>))
                 ELSE [error |-> <<>>, n |-> n.value, m |-> m.value]

\* The lists [random.randint(1, m) for _ in range(n)] can return.
Rolls(n, m) == [1..n -> 1..m]

\* sum(rolls)
RECURSIVE Sum(_)
Sum(rolls) == IF rolls = <<>> THEN 0 ELSE Head(rolls) + Sum(Tail(rolls))

\* "+".join(str(r) for r in rolls)
RollDetails(rolls) == Join(<<"+">>, [i \in DOMAIN rolls |-> Str(rolls[i])])

\* Mutant: one die too many is rolled.
Roll_OneTooMany(author, msg) ==
    /\ author # BotId
    /\ msg.cmd = "!roll"
    /\ LET dice == ParseDice(msg.arg)
       IN  IF dice.error # <<>>
           THEN last' = Event(author, "!roll", msg.arg,
                              <<Reply(dice.error[1].fmt, dice.error[1].args)>>)
           ELSE \E rolls \in Rolls(dice.n + 1, dice.m) :
                    last' = Event(author, "!roll", msg.arg,
                                  <<Reply("You rolled: {} = {}",
                                          <<RollDetails(rolls), Str(Sum(rolls))>>)>>)
    /\ UNCHANGED <<characters, combat_state, character_file, combat_file, creators, turns>>

\* !roll: the reply lists the rolls and their total, or carries the
\* ValueError's message.
Roll(author, msg) ==
    /\ author # BotId
    /\ msg.cmd = "!roll"
    /\ LET dice == ParseDice(msg.arg)
       IN  IF dice.error # <<>>
           THEN last' = Event(author, "!roll", msg.arg,
                              <<Reply(dice.error[1].fmt, dice.error[1].args)>>)
           ELSE \E rolls \in Rolls(dice.n, dice.m) :
                    last' = Event(author, "!roll", msg.arg,
                                  <<Reply("You rolled: {} = {}",
                                          <<RollDetails(rolls), Str(Sum(rolls))>>)>>)
    /\ UNCHANGED <<characters, combat_state, character_file, combat_file, creators, turns>>

\* str(n) for any integer
IntText(n) == IF n < 0 THEN <<"-">> \o Str(0 - n) ELSE Str(n)

\* The text "NdM"
DiceText(n, m) == IntText(n) \o <<"d">> \o IntText(m)

\* Expressions drawn after !roll: every NdM within the bounds, zero and
\* negative numbers included, and texts that are not of that form.
RollArgs ==
    {DiceText(n, m) : n \in (0 - 1)..MaxDice, m \in (0 - 1)..MaxSides}
    \cup {<<>>, <<"d">>, <<"2", "d">>, <<"2", "x", "2">>, <<"1", "d", "2", "d", "3">>,
          <<"2", "D", "2">>, <<"1", " ", "d", " ", "1">>}

RollMessages == {Parse(P_roll \o <<" ">> \o a) : a \in RollArgs}

\* Rolls alone, for what parse_dice_expression and the !roll branch compute.
NextRoll ==
    \E author \in Authors, msg \in RollMessages :
        \/ OnOwnMessage(author, msg) /\ Quiet
        \/ Roll(author, msg) /\ Quiet

SpecRoll == Init /\ [][NextRoll]_vars

\* -------------------------------------------------------------- completion

\* response.choices[0].message.content of the completions drawn
Completions == {<<" ", "o", "k">>}

\* str(e) of the exceptions openai.ChatCompletion.create is drawn to raise
Failures == {<<"t", "i", "m", "e", "o", "u", "t">>}

\* on_message is a coroutine of the client's single event loop: it runs
\* from the message's delivery to its first await without any other
\* callback running in between. No callback starts while the thread is
\* inside a call that has not returned.
Free == call = <<>>

\* !dnd up to the point where openai.ChatCompletion.create is entered: an
\* empty prompt is answered at once; otherwise the thread enters the call,
\* which is an ordinary (not awaited) function call.
DndCall(author, msg) ==
    /\ author # BotId
    /\ msg.cmd = "!dnd"
    /\ IF Not(msg.arg)
       THEN /\ last' = Event(author, "!dnd", msg.arg,
                             <<Reply("Please provide an action or query after !dnd.", <<>>)>>)
            /\ UNCHANGED call
       ELSE /\ last' = Event(author, "!dnd", msg.arg, <<>>)
            /\ call' = <<[author |-> author, prompt |-> msg.arg]>>
    /\ UNCHANGED <<characters, combat_state, character_file, combat_file, creators, turns>>

\* Mutant: an exception of the completion call is not caught.
DndReturn_Uncaught ==
    /\ call # <<>>
    /\ \/ \E outcome \in Completions :
            last' = Event(call[1].author, "!dnd", call[1].prompt,
                          <<Reply("{}", <<Strip(outcome)>>)>>)
       \/ \E e \in Failures :
            last' = Event(call[1].author, "!dnd", call[1].prompt, <<>>)
    /\ call' = <<>>
    /\ UNCHANGED <<characters, combat_state, character_file, combat_file, creators, turns>>

\* The completion call returns or raises, and the rest of the !dnd branch
\* runs: the stripped completion is sent, or the exception's text is.
DndReturn ==
    /\ call # <<>>
    /\ \/ \E outcome \in Completions :
            last' = Event(call[1].author, "!dnd", call[1].prompt,
                          <<Reply("{}", <<Strip(outcome)>>)>>)
       \/ \E e \in Failures :
            last' = Event(call[1].author, "!dnd", call[1].prompt,
                          <<Reply("Error contacting OpenAI: {}", <<e>>)>>)
    /\ call' = <<>>
    /\ UNCHANGED <<characters, combat_state, character_file, combat_file, creators, turns>>

\* Prompts drawn after !dnd.
DndArgs == {<<>>, <<" ", "g", "o">>}

\* Expressions drawn after !roll when all branches are exercised together.
FewRollArgs == {<<" ", "1", "d", "2">>, <<" ", "0", "d", "1">>, <<"x">>}

\* message.content of the messages drawn for the whole dispatcher: one
\* character name, and the two stateless commands.
AllContents ==
    {P_dnd \o a : a \in DndArgs}
    \cup {P_roll \o a : a \in FewRollArgs}
    \cup {P_createchar \o a : a \in {<<>>, <<" ", "A">>}}
    \cup {P_setclass \o a : a \in ClassArgs}
    \cup {P_additem \o a : a \in ItemArgs}
    \cup {P_startcombat \o a : a \in BareArgs}
    \cup {<<" ">> \o P_endturn, P_endcombat, P_sheet}
    \cup {<<>>, <<"h", "i">>, <<"!", "e", "n", "d">>}

AllMessages == {Parse(raw) : raw \in AllContents}

\* on_message for one delivered message: the branch that takes it, run by
\* the one thread when it is free.
OnMessage(author, msg) ==
    \/ Free /\ OnOwnMessage(author, msg) /\ Quiet
    \/ Free /\ OnOtherMessage(author, msg) /\ Quiet
    \/ Free /\ DndCall(author, msg) /\ UNCHANGED <<disk, tasks>>
    \/ Free /\ Roll(author, msg) /\ Quiet
    \/ Free /\ CreateChar(author, msg) /\ Quiet
    \/ Free /\ Sheet(author, msg) /\ Quiet
    \/ Free /\ SetClass(author, msg) /\ Quiet
    \/ Free /\ AddItem(author, msg) /\ Quiet
    \/ Free /\ StartCombat(author, msg) /\ Quiet
    \/ Free /\ EndTurn(author, msg) /\ Quiet
    \/ Free /\ EndCombat(author, msg) /\ Quiet

NextAll ==
    \/ Free /\ OnReady /\ Quiet
    \/ DndReturn /\ UNCHANGED <<disk, tasks>>
    \/ \E author \in Authors, msg \in AllMessages : OnMessage(author, msg)

\* Any sequence of messages for all nine commands; the completion call may
\* return, raise, or stay outstanding for ever.
SpecAll == Init /\ [][NextAll]_vars

\* ------------------------------------------------------------------ faults

\* What opening a backing file for writing and dumping into it can do.
DiskStates == {"ok", "open_fails", "write_fails"}

\* The environment: writes start or stop failing.
DiskChanges ==
    /\ \E d \in DiskStates \ {disk} : disk' = d
    /\ last' = Event(BotId, "disk", <<>>, <<>>)
    /\ UNCHANGED <<characters, combat_state, character_file, combat_file, creators, turns,
                   tasks, call>>

\* The process is started again: the module's globals are bound to {} and
\* on_ready loads the files.
Restart ==
    /\ characters' = LoadDocument(character_file, EmptyDict)
    /\ combat_state' = LoadDocument(combat_file, EmptyDict)
    /\ last' = Event(BotId, "restart", <<>>, <<>>)
    /\ UNCHANGED <<character_file, combat_file, creators, turns>>

\* message.content of the messages drawn while saves can fail: one user,
\* one name, one class, one item.
FaultContents ==
    {P_createchar \o <<" ", "A">>, P_setclass \o <<" ", "W">>, P_additem \o <<" ", "S">>,
     P_sheet, P_startcombat, P_endturn, P_endcombat}

FaultMessages == {Parse(raw) : raw \in FaultContents}

FaultUsers == {1}

NextFaults ==
    \/ DiskChanges
    \/ OnReady /\ Quiet
    \/ Restart /\ Quiet
    \/ \E author \in FaultUsers, msg \in FaultMessages :
        \/ CreateChar(author, msg) /\ Quiet
        \/ Sheet(author, msg) /\ Quiet
        \/ SetClass(author, msg) /\ Quiet
        \/ AddItem(author, msg) /\ Quiet
        \/ StartCombat(author, msg) /\ Quiet
        \/ EndTurn(author, msg) /\ Quiet
        \/ EndCombat(author, msg) /\ Quiet

\* One user's commands, reloads and restarts, while the environment makes
\* saves fail and succeed.
SpecFaults == Init /\ [][NextFaults]_vars

\* ------------------------------------------------------------------ awaits

\* Largest number of handlers suspended at an await at once.
MaxTasks == 2

\* A handler suspended at `await message.channel.send(...)`.
Task(author, cmd) == [author |-> author, cmd |-> cmd]

\* message.content of the messages drawn while handlers overlap: the
\* commands that write, with one name and one item.
AsyncContents ==
    {P_createchar \o <<" ", "A">>, P_additem \o <<" ", "S">>, P_startcombat, P_endcombat}

AsyncMessages == {Parse(raw) : raw \in AsyncContents}

\* A message can be delivered while other handlers are suspended.
Admit == Free /\ BagCardinality(tasks) < MaxTasks

\* The handler that just ran from the delivery of its message to its await
\* (the whole of its branch but the final return) is suspended there.
Suspend(author, msg) ==
    /\ tasks' = IF last'.sent = <<>> THEN tasks
                ELSE tasks (+) SetToBag({Task(author, msg.cmd)})
    /\ UNCHANGED <<disk, call>>

\* Mutant: the !startcombat branch assigns and saves after its await.
Resume_AssignsAfterAwait(task) ==
    /\ Free
    /\ BagIn(task, tasks)
    /\ tasks' = tasks (-) SetToBag({task})
    /\ IF task.cmd = "!startcombat"
       THEN /\ combat_state' = BeginCombat(combat_state, CharacterNames(characters))
            /\ combat_file' = SaveCombat(combat_state')
       ELSE UNCHANGED <<combat_state, combat_file>>
    /\ UNCHANGED <<characters, character_file, last, creators, turns, disk, call>>

\* The send a handler awaits completes: the handler resumes at the `return`
\* that follows the await in every branch, and ends.
Resume(task) ==
    /\ Free
    /\ BagIn(task, tasks)
    /\ tasks' = tasks (-) SetToBag({task})
    /\ UNCHANGED <<characters, combat_state, character_file, combat_file, last, creators,
                   turns, disk, call>>

NextAsync ==
    \/ \E task \in BagToSet(tasks) : Resume(task)
    \/ \E author \in Users, msg \in AsyncMessages :
        \/ Admit /\ CreateChar(author, msg) /\ Suspend(author, msg)
        \/ Admit /\ AddItem(author, msg) /\ Suspend(author, msg)
        \/ Admit /\ StartCombat(author, msg) /\ Suspend(author, msg)
        \/ Admit /\ EndCombat(author, msg) /\ Suspend(author, msg)

\* Messages delivered while earlier handlers are still suspended at their
\* awaits, the sends completing in any order.
SpecAsync == Init /\ [][NextAsync]_vars

\* ----------------------------------------------------------- specification

Next ==
    \/ OnReady /\ Quiet
    \/ \E author \in Authors, msg \in Messages :
        \/ OnOwnMessage(author, msg) /\ Quiet
        \/ OnOtherMessage(author, msg) /\ Quiet
        \/ CreateChar(author, msg) /\ Quiet
        \/ Sheet(author, msg) /\ Quiet
        \/ SetClass(author, msg) /\ Quiet
        \/ AddItem(author, msg) /\ Quiet
        \/ StartCombat(author, msg) /\ Quiet
        \/ EndTurn(author, msg) /\ Quiet
        \/ EndCombat(author, msg) /\ Quiet

\* Any sequence of messages and on_ready events; every save succeeds.
Spec == Init /\ [][Next]_vars

\* ------------------------------------------------------------------ claims

\* Views of the combat record and of the last event, for the properties.
Ongoing == DictHas(combat_state, "ongoing") /\ DictAt(combat_state, "ongoing") = TRUE

TurnOrder == DictGet(combat_state, "turn_order", <<>>)

CurrentIndex == DictGet(combat_state, "current_index", 0)

Said(fmt, args) == last.sent = <<[fmt |-> fmt, args |-> args]>>

\* C1: whenever combat_state["ongoing"] is true, "turn_order" and
\* "current_index" are present, turn_order is non-empty and
\* 0 <= current_index < len(turn_order); this holds after every command and
\* after every reload of the saved documents.
C1_ActiveIndexInRange ==
    Ongoing =>
        /\ DictHas(combat_state, "turn_order")
        /\ DictHas(combat_state, "current_index")
        /\ TurnOrder # <<>>
        /\ CurrentIndex \in 0..(Len(TurnOrder) - 1)

\* A reload, right after the index wrapped round a two-name turn order.
C1_Witness ==
    /\ last.cmd = "on_ready"
    /\ Ongoing
    /\ Len(TurnOrder) = 2
    /\ CurrentIndex = 0
    /\ turns = 2

\* C2: a combat command in the wrong state changes nothing: !startcombat
\* while a combat is ongoing gets the already-in-progress reply and leaves
\* combat_state (ongoing, turn_order, current_index) and the combat file as
\* they were; !endturn and !endcombat while idle get the no-combat reply and
\* leave combat_state and the combat file as they were, still idle.
C2_WrongStateRejected ==
    [][/\ (last'.cmd = "!startcombat" /\ Ongoing) =>
            /\ Said("Combat is already in progress.", <<>>)'
            /\ combat_state' = combat_state
            /\ combat_file' = combat_file
            /\ Ongoing'
       /\ (last'.cmd \in {"!endturn", "!endcombat"} /\ ~Ongoing) =>
            /\ Said("No combat is currently in progress.", <<>>)'
            /\ combat_state' = combat_state
            /\ combat_file' = combat_file
            /\ ~Ongoing'
      ]_vars

\* !startcombat refused in the middle of an encounter, the index not at 0.
C2_Witness ==
    /\ last.cmd = "!startcombat"
    /\ Said("Combat is already in progress.", <<>>)
    /\ Ongoing
    /\ Len(TurnOrder) = 2
    /\ CurrentIndex = 1

\* Number of entries of the list s equal to x.
Count(s, x) == Cardinality({i \in DOMAIN s : s[i] = x})

\* a and b hold the same names the same number of times each.
SameMultiset(a, b) ==
    /\ Len(a) = Len(b)
    /\ \A i \in DOMAIN a : Count(a, a[i]) = Count(b, a[i])

\* Every list that holds the names of s the same number of times each.
Arrangements(s) ==
    {t \in [DOMAIN s -> {s[i] : i \in DOMAIN s}] : SameMultiset(t, s)}

\* C3: !startcombat, sent while idle with at least one character record,
\* makes the combat ongoing with exactly the three keys, current_index = 0
\* and turn_order a rearrangement of the names of all records of that
\* moment (same length as the registry, every name as often as records
\* carry it), and announces that order and its first name; and from every
\* such state each rearrangement of the names is a turn order the command
\* can produce.
C3_StartTakesAnyPermutation ==
    /\ [][(last'.cmd = "!startcombat" /\ ~Ongoing /\ characters # <<>>) =>
            /\ Ongoing'
            /\ DictKeys(combat_state') = {"ongoing", "turn_order", "current_index"}
            /\ CurrentIndex' = 0
            /\ Len(TurnOrder') = Len(characters)
            /\ SameMultiset(TurnOrder', CharacterNames(characters))
            /\ Said("Combat begins! Turn order: {}\nIt is now {}'s turn.",
                    <<Join(<<",", " ">>, TurnOrder), TurnOrder[1]>>)'
         ]_vars
    /\ [](~Ongoing /\ characters # <<>> =>
            \A p \in Arrangements(CharacterNames(characters)) :
                ENABLED (\E author \in Users, msg \in Messages :
                            StartCombat(author, msg) /\ TurnOrder' = p))

\* A combat just started over two records that carry different names, the
\* record created second acting first.
C3_Witness ==
    /\ last.cmd = "!startcombat"
    /\ Ongoing
    /\ CurrentIndex = 0
    /\ Len(characters) = 2
    /\ TurnOrder = <<DictAt(characters[2].val, "name"), DictAt(characters[1].val, "name")>>
    /\ TurnOrder[1] # TurnOrder[2]

\* C4: while a combat is ongoing over n = len(turn_order) names, !endturn
\* moves current_index to (current_index + 1) mod n, keeps the order and
\* announces turn_order[current_index]; hence k accepted !endturn after
\* the accepted !startcombat leave the index at k mod n whatever other
\* events came in between: it is back at 0 after n of them and not before,
\* and n turns in a row visit every position once.
C4_EndTurnCycles ==
    /\ [][(last'.cmd = "!endturn" /\ Ongoing) =>
            /\ Ongoing'
            /\ TurnOrder' = TurnOrder
            /\ CurrentIndex' = (CurrentIndex + 1) % Len(TurnOrder)
            /\ Said("It is now {}'s turn.", <<TurnOrder[CurrentIndex + 1]>>)'
         ]_vars
    /\ []((Ongoing /\ turns < MaxTurns) => CurrentIndex = turns % Len(TurnOrder))

\* The second !endturn of a two-name combat brings the first name back,
\* although a record was renamed or added since the combat started.
C4_Witness ==
    /\ last.cmd = "!endturn"
    /\ Ongoing
    /\ Len(TurnOrder) = 2
    /\ turns = 2
    /\ CurrentIndex = 0
    /\ Said("It is now {}'s turn.", <<TurnOrder[1]>>)
    /\ ~SameMultiset(TurnOrder, CharacterNames(characters))

\* C5: from an accepted !startcombat to the next accepted !endcombat the
\* turn order is fixed: every step taken while a combat is ongoing (a
\* !createchar of a new author or over a participant's record, !setclass,
\* !additem, !endturn, a refused !startcombat, a reload) leaves the combat
\* ongoing with turn_order unchanged, except the accepted !endcombat.
C5_TurnOrderFixed ==
    [][Ongoing =>
          \/ (Ongoing' /\ TurnOrder' = TurnOrder)
          \/ (last'.cmd = "!endcombat" /\ ~Ongoing')
      ]_vars

\* During a one-name combat, after a turn, the participant's author took a
\* new name and a second author created a record.
C5_Witness ==
    /\ last.cmd = "!createchar"
    /\ Ongoing
    /\ turns >= 1
    /\ Len(TurnOrder) = 1
    /\ Len(characters) = 2
    /\ \A i \in DOMAIN characters : DictAt(characters[i].val, "name") # TurnOrder[1]

\* C6: !startcombat sent while the registry is empty gets the no-characters
\* reply, leaves combat_state as it was and idle, and leaves the combat
\* file untouched.
C6_NoCharactersRejected ==
    [][(last'.cmd = "!startcombat" /\ characters = <<>>) =>
          /\ Said("No characters exist to start combat.", <<>>)'
          /\ combat_state' = combat_state
          /\ combat_file' = combat_file
          /\ ~Ongoing'
      ]_vars

\* !startcombat refused for want of characters; no combat file was written.
C6_Witness ==
    /\ last.cmd = "!startcombat"
    /\ Said("No characters exist to start combat.", <<>>)
    /\ characters = <<>>
    /\ combat_state = <<>>
    /\ combat_file.kind = "absent"

\* C7: an accepted !endcombat leaves combat_state without any key and saves
\* the empty object; a !startcombat sent after an encounter has ended (the
\* combat file holds a document and no combat is ongoing) is accepted
\* whenever a record exists, and builds the three keys anew from the
\* registry of that moment: current_index 0 and a rearrangement of the
\* current names.
C7_EndClearsThenFreshStart ==
    [][/\ (last'.cmd = "!endcombat" /\ Ongoing) =>
            /\ Said("Combat has ended.", <<>>)'
            /\ DictKeys(combat_state') = {}
            /\ combat_state' = EmptyDict
            /\ combat_file' = JsonFile([t |-> "object", v |-> <<>>])
       /\ (last'.cmd = "!startcombat" /\ ~Ongoing /\ combat_file.kind = "json"
             /\ characters # <<>>) =>
            /\ Ongoing'
            /\ DictKeys(combat_state') = {"ongoing", "turn_order", "current_index"}
            /\ CurrentIndex' = 0
            /\ SameMultiset(TurnOrder', CharacterNames(characters))
      ]_vars

\* An encounter over two names has just been ended.
C7_Witness ==
    /\ last.cmd = "!endcombat"
    /\ Said("Combat has ended.", <<>>)
    /\ combat_state = EmptyDict
    /\ combat_file = JsonFile([t |-> "object", v |-> <<>>])
    /\ Len(characters) = 2

\* {"name": name, "class": "", "items": []}, written out entry by entry.
FreshRecord(name) ==
    <<[key |-> "name", val |-> name],
      [key |-> "class", val |-> <<>>],
      [key |-> "items", val |-> <<>>]>>

\* C8: !createchar with a non-empty name is confirmed and leaves exactly one
\* entry for its author, holding that name, class "" and no items, whatever
\* the author's record held before; sent again over such a record it
\* changes nothing; and the registry always holds one entry for each author
\* whose !createchar was confirmed, and no other.
C8_CreateReplacesRecord ==
    /\ [][(last'.cmd = "!createchar" /\ last'.arg # <<>>) =>
            LET user_id == Str(last'.author)
            IN  /\ Said("Character '{}' created!", <<last.arg>>)'
                /\ Cardinality({i \in DOMAIN characters' : characters'[i].key = user_id}) = 1
                /\ DictAt(characters', user_id) = FreshRecord(last'.arg)
                /\ (DictHas(characters, user_id)
                      /\ DictAt(characters, user_id) = FreshRecord(last'.arg)) =>
                        (characters' = characters /\ character_file' = character_file)
         ]_vars
    /\ [](/\ Len(characters) = Cardinality(creators)
          /\ DictKeys(characters) = {Str(author) : author \in creators})

\* Both authors entered a combat as "A"; one of them has since created "B",
\* the other has set a class.
C8_Witness ==
    /\ last.cmd = "!createchar"
    /\ last.arg = <<"B">>
    /\ Ongoing
    /\ TurnOrder = <<<<"A">>, <<"A">>>>
    /\ Len(characters) = 2
    /\ \E i \in DOMAIN characters : DictAt(characters[i].val, "class") # <<>>

\* C9: !setclass and !additem from an author without a record get the
\* create-a-character-first reply, also when their argument is empty, and
\* change neither the registry nor the characters file; from an author with
\* a record and with an empty argument they get the usage reply and change
\* neither.
C9_NoCharacterRejected ==
    [][LET has == DictHas(characters, Str(last'.author))
           same == characters' = characters /\ character_file' = character_file
       IN  /\ (last'.cmd \in {"!setclass", "!additem"} /\ ~has) =>
                 Said("Create a character first using !createchar.", <<>>)' /\ same
           /\ (last'.cmd = "!setclass" /\ has /\ last'.arg = <<>>) =>
                 Said("Please specify a class.", <<>>)' /\ same
           /\ (last'.cmd = "!additem" /\ has /\ last'.arg = <<>>) =>
                 Said("Please specify an item to add.", <<>>)' /\ same
      ]_vars

\* !setclass without an argument from an author who has no record, while
\* another author has one.
C9_Witness ==
    /\ last.cmd = "!setclass"
    /\ last.arg = <<>>
    /\ Said("Create a character first using !createchar.", <<>>)
    /\ characters # <<>>
    /\ ~DictHas(characters, Str(last.author))

\* C10: every record of the registry has a "name" that is not empty, and no
\* entry of turn_order is empty.
C10_NamesNonEmpty ==
    /\ \A i \in DOMAIN characters :
          /\ DictHas(characters[i].val, "name")
          /\ DictAt(characters[i].val, "name") # <<>>
    /\ \A j \in DOMAIN TurnOrder : TurnOrder[j] # <<>>

\* A !createchar without a name was just refused, during a combat over two
\* names.
C10_Witness ==
    /\ last.cmd = "!createchar"
    /\ last.arg = <<>>
    /\ Said("Please provide a name for your character.", <<>>)
    /\ Ongoing
    /\ Len(TurnOrder) = 2
    /\ Len(characters) = 2

\* The branches that read or write the author's character record.
CharacterCommands == {"!createchar", "!sheet", "!setclass", "!additem"}

\* The branches that do not use the registry's records.
OtherCommands == {"!startcombat", "!endturn", "!endcombat", "!dnd", "!roll"}

\* The registry's record under key k, or the empty value when it has none.
RecordOf(d, k) == DictGet(d, k, <<>>)

\* C11: a character command (!createchar, !sheet, !setclass, !additem) from
\* user U changes at most the record under U's own identifier: every other
\* key keeps its record (name, class and items) and no other key appears or
\* disappears, and the combat record is unchanged. The combat commands,
\* !dnd and !roll change no character record.
C11_CommandsTouchOnlyTheirOwn ==
    [][ /\ last'.cmd \in CharacterCommands =>
              /\ \A k \in DictKeys(characters) \cup DictKeys(characters') :
                    k # Str(last'.author) =>
                        /\ DictHas(characters, k) /\ DictHas(characters', k)
                        /\ RecordOf(characters', k) = RecordOf(characters, k)
              /\ combat_state' = combat_state
        /\ last'.cmd \in OtherCommands => characters' = characters
      ]_vars

\* User 1's !additem was just confirmed during a combat, while user 2 has a
\* record with a class of its own.
C11_Witness ==
    /\ last.cmd = "!additem"
    /\ last.author = 1
    /\ DictHas(characters, Str(1))
    /\ DictHas(characters, Str(2))
    /\ Said("Added {} to {}'s inventory.", <<last.arg, DictAt(RecordOf(characters, Str(1)), "name")>>)
    /\ Ongoing
    /\ DictAt(RecordOf(characters, Str(2)), "class") # <<>>
    /\ DictAt(RecordOf(characters, Str(2)), "items") = <<>>

\* The inventory of the record under key k; empty when k has no record.
ItemsOf(d, k) == IF DictHas(d, k) THEN DictGet(DictAt(d, k), "items", <<>>) ELSE <<>>

\* a is a prefix of b
IsPrefix(a, b) == Len(a) <= Len(b) /\ SubSeq(b, 1, Len(a)) = a

Persisted(file) ==
    IF file.kind = "absent" THEN EmptyDict
    ELSE IF file.kind = "json" THEN JsonLoad(file.text)
    ELSE <<[key |-> "unreadable", val |-> TRUE]>>

\* C13: while no save fails, between any two steps the characters file
\* holds the in-memory registry and the combat file holds the in-memory
\* combat record (an absent file counting as the empty document), so that a
\* load_data at that point binds both dictionaries to the values they have.
C13_PersistedEqualsMemory ==
    /\ Persisted(character_file) = characters
    /\ Persisted(combat_file) = combat_state
    /\ LoadDocument(character_file, characters) = characters
    /\ LoadDocument(combat_file, combat_state) = combat_state

\* A reload during a combat over two records, one with a class and an item,
\* both files written.
C13_Witness ==
    /\ last.cmd = "on_ready"
    /\ character_file.kind = "json"
    /\ combat_file.kind = "json"
    /\ Ongoing
    /\ CurrentIndex = 1
    /\ Len(characters) = 2
    /\ \E u \in Users :
          /\ ItemsOf(characters, Str(u)) # <<>>
          /\ DictGet(RecordOf(characters, Str(u)), "class", <<>>) # <<>>

\* The steps that run load_data.
Loads == {"on_ready", "restart"}

\* C14: after every run of load_data the registry is empty if the
\* characters file is absent, and the combat record is empty if the combat
\* file is absent, whatever they held before the load.
C14_AbsentFileLoadsEmpty ==
    last.cmd \in Loads =>
        /\ character_file.kind = "absent" => characters = EmptyDict
        /\ combat_file.kind = "absent" => combat_state = EmptyDict

\* C15: a load binds the empty dictionary for a file that exists but cannot
\* be parsed, binds the other dictionary to what its own file holds, and is
\* possible in every state (no exception leaves load_data).
C15_UnreadableFileLoadsEmpty ==
    /\ [][ last'.cmd \in Loads =>
              /\ character_file.kind = "partial" => characters' = EmptyDict
              /\ combat_file.kind = "partial" => combat_state' = EmptyDict
              /\ character_file.kind = "json" => characters' = JsonLoad(character_file.text)
              /\ combat_file.kind = "json" => combat_state' = JsonLoad(combat_file.text)
         ]_vars
    /\ [](ENABLED (OnReady /\ Quiet))

\* on_ready just ran with a characters file that cannot be parsed and a
\* combat file that can: the registry is empty and a combat is in progress.
C15_Witness ==
    /\ last.cmd = "on_ready"
    /\ character_file.kind = "partial"
    /\ combat_file.kind = "json"
    /\ characters = EmptyDict
    /\ Ongoing

\* The confirmations of the six branches that save.
Confirmations ==
    {"Character '{}' created!", "Class set to {} for {}.", "Added {} to {}'s inventory.",
     "Combat begins! Turn order: {}\nIt is now {}'s turn.", "It is now {}'s turn.",
     "Combat has ended."}

\* C16: a failing save is absorbed. In a step taken while saves fail, each
\* mutating branch whose checks pass on the in-memory state has its
\* in-memory effect and sends its confirmation, as when the save succeeds;
\* the file it tried to write is left as it was or partial; and the
\* dictionaries change only in such a branch or in a load.
C16_FailedSaveAbsorbed ==
    [][ LET uid == Str(last'.author)
            arg == last'.arg
        IN  /\ disk # "ok" =>
                  /\ (last'.cmd = "!createchar" /\ arg # <<>>) =>
                        /\ RecordOf(characters', uid) = FreshRecord(arg)
                        /\ last'.sent = <<Reply("Character '{}' created!", <<arg>>)>>
                  /\ (last'.cmd = "!setclass" /\ DictHas(characters, uid) /\ arg # <<>>) =>
                        /\ DictAt(RecordOf(characters', uid), "class") = arg
                        /\ last'.sent[1].fmt = "Class set to {} for {}."
                  /\ (last'.cmd = "!additem" /\ DictHas(characters, uid) /\ arg # <<>>) =>
                        /\ ItemsOf(characters', uid) = Append(ItemsOf(characters, uid), arg)
                        /\ last'.sent[1].fmt = "Added {} to {}'s inventory."
                  /\ (last'.cmd = "!startcombat" /\ ~Ongoing /\ characters # EmptyDict) =>
                        /\ Ongoing'
                        /\ last'.sent[1].fmt = "Combat begins! Turn order: {}\nIt is now {}'s turn."
                  /\ (last'.cmd = "!endturn" /\ Ongoing) =>
                        /\ CurrentIndex' = (CurrentIndex + 1) % Len(TurnOrder)
                        /\ last'.sent[1].fmt = "It is now {}'s turn."
                  /\ (last'.cmd = "!endcombat" /\ Ongoing) =>
                        /\ combat_state' = EmptyDict
                        /\ last'.sent = <<Reply("Combat has ended.", <<>>)>>
                  /\ character_file' \in {character_file, PartialFile}
                  /\ combat_file' \in {combat_file, PartialFile}
            /\ (characters' # characters \/ combat_state' # combat_state) =>
                  \/ last'.cmd \in Loads
                  \/ last'.sent # <<>> /\ last'.sent[1].fmt \in Confirmations
      ]_vars

\* A !setclass was just confirmed while saves fail, for a record that never
\* reached the characters file: the command worked on the in-memory state.
C16_Witness ==
    /\ disk # "ok"
    /\ last.cmd = "!setclass"
    /\ Said("Class set to {} for {}.", <<last.arg, DictGet(RecordOf(characters, Str(last.author)), "name", <<>>)>>)
    /\ character_file.kind = "absent"
    /\ Ongoing
    /\ combat_file.kind = "partial"

\* C17: every message that is not the bot's own and whose stripped text
\* starts with one of the nine prefixes is answered with exactly one reply,
\* whether its command is carried out or refused (for !dnd, once the
\* completion call has returned or raised; none is sent while it is
\* outstanding); a message of the bot's own, or one no prefix matches, is
\* not answered and changes neither dictionary nor file. A message is taken
\* by a branch exactly when its stripped text starts with a prefix.
C17_OneReplyPerCommand ==
    /\ [][ /\ (last'.author # BotId /\ last'.cmd # "none") =>
                 Len(last'.sent) = (IF call' = <<>> THEN 1 ELSE 0)
           /\ (last'.cmd = "none") =>
                 /\ last'.sent = <<>>
                 /\ UNCHANGED <<characters, combat_state, character_file, combat_file>>
         ]_vars
    /\ [](\A raw \in AllContents :
            Parse(raw).cmd # "none" <=>
                \E i \in DOMAIN Prefixes : StartsWith(Strip(raw), Prefixes[i].text))

\* The completion call of a !dnd just raised and its text was sent as the
\* one reply, during a combat.
C17_Witness ==
    /\ last.cmd = "!dnd"
    /\ last.arg # <<>>
    /\ call = <<>>
    /\ \E e \in Failures : Said("Error contacting OpenAI: {}", <<e>>)
    /\ Ongoing

\* Some command of user u is processed in the next step.
Processed(u) == \E msg \in AllMessages : OnMessage(u, msg)

\* C18: while the completion call of one user's !dnd has not returned,
\* commands of the other users are still processed.
C18_CallDoesNotBlockOthers ==
    call # <<>> => \A u \in Users \ {call[1].author} : ENABLED Processed(u)

\* The sum of the first k values of a list of rolls.
RECURSIVE Added(_, _)
Added(rolls, k) == IF k = 0 THEN 0 ELSE Added(rolls, k - 1) + rolls[k]

\* C19: for N > 0 and M > 0 the reply to "!roll NdM" lists exactly N values,
\* each in 1..M, and the total it shows is their sum ("1d1" gives the one
\* value 1); for N <= 0 or M <= 0 the roll fails with the positivity error
\* and no values are shown.
C19_RollYieldsNValuesInRange ==
    \A n \in (0 - 1)..MaxDice, m \in (0 - 1)..MaxSides :
        (last.cmd = "!roll" /\ last.arg = DiceText(n, m)) =>
            /\ (n > 0 /\ m > 0) =>
                  \E rolls \in [1..n -> 1..m] :
                      Said("You rolled: {} = {}",
                           <<Join(<<"+">>, [i \in 1..n |-> IntText(rolls[i])]),
                             IntText(Added(rolls, n))>>)
            /\ (n <= 0 \/ m <= 0) =>
                  Said("Number of dice and sides must be positive.", <<>>)
            /\ (n = 1 /\ m = 1) => Said("You rolled: {} = {}", <<<<"1">>, <<"1">>>>)

\* "!roll 2d3" was just answered with the rolls 3 and 1 and the total 4.
C19_Witness ==
    /\ last.cmd = "!roll"
    /\ last.arg = <<"2", "d", "3">>
    /\ Said("You rolled: {} = {}", <<<<"3", "+", "1">>, <<"4">>>>)

\* One whole handler, run from its first line to its last with nothing in
\* between, for some message.
SerialStep ==
    \E author \in Users, msg \in AsyncMessages :
        \/ CreateChar(author, msg)
        \/ AddItem(author, msg)
        \/ StartCombat(author, msg)
        \/ EndCombat(author, msg)

\* C20: no update is lost when handlers overlap at their awaits. Every step
\* that changes a dictionary or a file is the whole of one handler (check,
\* mutation and save together), so the run is a serial execution of the
\* handlers in the order of their delivery; a resumed handler changes
\* nothing; a confirmed !additem appends to the items the record holds at
\* that moment; and a !startcombat is confirmed only from Idle and leaves
\* the combat ongoing, so of two overlapping ones exactly one is confirmed.
C20_InterleavingIsSerial ==
    /\ [][SerialStep]_<<characters, combat_state, character_file, combat_file>>
    /\ [][ /\ (last'.cmd = "!additem" /\ last' # last /\ last'.sent[1].fmt = "Added {} to {}'s inventory.") =>
                 ItemsOf(characters', Str(last'.author)) =
                     Append(ItemsOf(characters, Str(last'.author)), last'.arg)
           /\ (last'.cmd = "!startcombat" /\ BagCardinality(tasks') > BagCardinality(tasks)
               /\ last'.sent[1].fmt = "Combat begins! Turn order: {}\nIt is now {}'s turn.") =>
                 ~Ongoing /\ Ongoing'
           /\ BagCardinality(tasks') < BagCardinality(tasks) =>
                 UNCHANGED <<characters, combat_state, character_file, combat_file>>
         ]_vars
    /\ [](/\ Persisted(character_file) = characters
          /\ Persisted(combat_file) = combat_state)

\* The !additem handlers of both users are suspended at their awaits at the
\* same time, and both items are in the registry and in the file.
C20_Witness ==
    /\ tasks = SetToBag({Task(1, "!additem"), Task(2, "!additem")})
    /\ ItemsOf(characters, Str(1)) = <<<<"S">>>>
    /\ ItemsOf(characters, Str(2)) = <<<<"S">>>>
    /\ Persisted(character_file) = characters

====
